---- MODULE Spec2Model ----
(***************************************************************************)
(* The GitHub data-aggregation proxy of the portfolio site: the GraphQL    *)
(* transport (lib/github/client.ts: retryRequest, fetchGitHubGraphQL) and  *)
(* the four route handlers (/stats, /activity, /contributions, /repos)     *)
(* that call it.  One inbound request (or one direct call of the           *)
(* transport) is followed from entry to its response.                      *)
(*                                                                         *)
(* Strings the code inspects (query parameters, repository names) are      *)
(* sequences of one-character strings, so that split, toLowerCase,         *)
(* includes and parseInt are computed, not assumed.  An optional value is  *)
(* a sequence of length 0 (absent / null / undefined) or 1 (present).      *)
(***************************************************************************)
EXTENDS Integers, Sequences, FiniteSets, TLC

VARIABLES
    caller,        \* which entry point runs: a route, or "direct" (fetchGitHubGraphQL itself)
    token,         \* process.env.GITHUB_TOKEN / the token argument
    featuredParam, \* searchParams.get('featured')
    limitParam,    \* searchParams.get('limit')
    pc,            \* position of the (single-threaded, async) control flow
    i,             \* retryRequest: loop index
    httpLog,       \* retryRequest: outcomes of the requests issued by the current call
    delays,        \* retryRequest: the setTimeout delays awaited by the current call
    inFlight,      \* number of HTTP requests issued and not yet answered
    payload,       \* fetchGitHubGraphQL: the parsed body of the response retryRequest returned
    callResult,    \* what fetchGitHubGraphQL returned or threw
    requests,      \* HTTP requests issued since the inbound request arrived
    calls,         \* fetchGitHubGraphQL invocations since the inbound request arrived
    allRepos,      \* /repos: accumulated nodes
    hasNextPage,   \* /repos: loop flag
    endCursor,     \* /repos: cursor for the next page
    sentCursors,   \* /repos: the `after` variable of each page request, in order
    response,      \* the NextResponse produced
    cpc,           \* GithubSection: position of fetchGitHubData
    settled,       \* GithubSection: how each of the three fetches settled
    bodyRead,      \* GithubSection: how each response.json() went
    stats,         \* GithubSection: useState stats
    repositoriesState, \* GithubSection: useState repositories
    activity,      \* GithubSection: useState activity
    loading,       \* GithubSection: useState loading
    error          \* GithubSection: useState error

serverVars == <<caller, token, featuredParam, limitParam, pc, i, httpLog, delays,
                inFlight, payload, callResult, requests, calls, allRepos, hasNextPage,
                endCursor, sentCursors, response>>

clientVars == <<cpc, settled, bodyRead, stats, repositoriesState, activity, loading, error>>

vars == <<serverVars, clientVars>>

-----------------------------------------------------------------------------
(* Bounds of the model *)

\* page fetches followed in one /repos request
MaxPages == 2

\* length of the accumulated list the /repos pipeline is applied to on its own
MaxRepos == 3

-----------------------------------------------------------------------------
(* Optional values and JavaScript truthiness *)

None == <<>>
Some(x) == <<x>>
IsSome(o) == o # <<>>
Get(o) == o[1]

\* x || 0 on an optional number: absent and 0 both give 0
OrOne(o) == IF IsSome(o) /\ Get(o) # 0 THEN Get(o) ELSE 1
OrZero(o) == IF IsSome(o) /\ Get(o) # 0 THEN Get(o) ELSE 0

\* !token on string | undefined: undefined and "" are falsy
TokenOnlyUndefinedFalsy(t) == t = None
Falsy(t) == t = None \/ Get(t) = ""

-----------------------------------------------------------------------------
(* String functions of the runtime, on sequences of characters *)

ToLowerChar(c) ==
    CASE c = "A" -> "a" [] c = "B" -> "b" [] c = "F" -> "f"
      [] c = "O" -> "o" [] c = "R" -> "r" [] c = "Z" -> "z"
      [] OTHER -> c

ToLowerCase(s) == [k \in 1..Len(s) |-> ToLowerChar(s[k])]

\* String.prototype.includes
Includes(s, sub) ==
    \E k \in 0..(Len(s) - Len(sub)) : SubSeq(s, k + 1, k + Len(sub)) = sub

\* String.prototype.split(sep) for a one-character separator: "".split(",") is [""]
RECURSIVE SplitFrom(_, _, _)
SplitFrom(s, sep, cur) ==
    IF s = <<>> THEN <<cur>>
    ELSE IF Head(s) = sep THEN <<cur>> \o SplitFrom(Tail(s), sep, <<>>)
    ELSE SplitFrom(Tail(s), sep, Append(cur, Head(s)))

Split(s, sep) == SplitFrom(s, sep, <<>>)

NonEmpty(x) == x # <<>>

Digits == <<"0", "1", "2", "3", "4", "5", "6", "7", "8", "9">>
IsDigit(c) == \E d \in 1..10 : Digits[d] = c
DigitVal(c) == (CHOOSE d \in 1..10 : Digits[d] = c) - 1

RECURSIVE SkipSpaces(_)
SkipSpaces(s) == IF s # <<>> /\ Head(s) = " " THEN SkipSpaces(Tail(s)) ELSE s

RECURSIVE DigitPrefixVal(_, _)
DigitPrefixVal(s, acc) ==
    IF s # <<>> /\ IsDigit(Head(s))
    THEN DigitPrefixVal(Tail(s), acc * 10 + DigitVal(Head(s)))
    ELSE acc

\* parseInt(s, 10): leading blanks, an optional sign, then the longest digit
\* prefix; NaN when there is no digit
ParseInt(s) ==
    LET t == SkipSpaces(s)
        neg == t # <<>> /\ Head(t) = "-"
        u == IF t # <<>> /\ Head(t) \in {"-", "+"} THEN Tail(t) ELSE t
    IN IF u = <<>> \/ ~IsDigit(Head(u))
       THEN [nan |-> TRUE, val |-> 0]
       ELSE [nan |-> FALSE,
             val |-> IF neg THEN 0 - DigitPrefixVal(u, 0) ELSE DigitPrefixVal(u, 0)]

\* Array.prototype.slice(0, end) with end a number or NaN
Slice0(seq, end) ==
    LET rel == IF end.nan THEN 0 ELSE end.val
        fin == IF rel < 0
               THEN (IF Len(seq) + rel > 0 THEN Len(seq) + rel ELSE 0)
               ELSE (IF rel < Len(seq) THEN rel ELSE Len(seq))
    IN SubSeq(seq, 1, fin)

\* Array.prototype.join: the pieces with the separator between them
RECURSIVE Reverse(_)
Reverse(seq) == IF seq = <<>> THEN <<>> ELSE Append(Reverse(Tail(seq)), Head(seq))

RECURSIVE Join(_, _)
Join(pieces, sep) ==
    IF pieces = <<>> THEN <<>>
    ELSE IF Len(pieces) = 1 THEN <<pieces[1]>>
    ELSE <<pieces[1], sep>> \o Join(Tail(pieces), sep)

-----------------------------------------------------------------------------
(* GraphQL transport: lib/github/client.ts *)

\* retryRequest's default maxRetries
MaxRetries == 3

\* retryRequest's default delay (ms)
BaseDelay == 1000

\* HTTP statuses the upstream answers with; a network failure has no status
Statuses == {200, 403, 404, 500}

Outcomes ==
    {[net |-> TRUE, status |-> 0]} \cup {[net |-> FALSE, status |-> s] : s \in Statuses}

\* what response.json() yields for a 403 body; "{}" also stands for a body
\* that does not parse (.catch(() => ({})))
ErrorBodies == {"{}", "{\"message\":\"API rate limit exceeded\"}"}

StatusText(s) ==
    CASE s = 403 -> "Forbidden" [] s = 404 -> "Not Found"
      [] s = 500 -> "Internal Server Error" [] OTHER -> "OK"

\* Response.ok
ResponseOkAbove200(s) == s > 200 /\ s <= 299
ResponseOk(s) == s >= 200 /\ s <= 299

\* the Error objects the transport throws: message prefix, status and detail
Err(msg, status, detail) == [msg |-> msg, status |-> status, detail |-> detail]

NetworkError == Err("fetch failed", 0, <<>>)
TokenRequired == Err("GitHub token is required", 0, <<>>)
RateLimitError(body) == Err("GitHub API rate limit exceeded: ", 403, <<body>>)
ApiError(s) == Err("GitHub API error: ", s, <<StatusText(s)>>)
MaxRetriesExceeded == Err("Max retries exceeded", 0, <<>>)
GraphQLErrors(msgs) == Err("GraphQL errors: ", 0, Join(msgs, ", "))
NoDataError == Err("No data returned from GitHub API", 0, <<>>)
JsonSyntaxError == Err("Unexpected token in JSON", 0, <<>>)

NoError == Err("", 0, <<>>)

Returned(d) == [ok |-> TRUE, data |-> Some(d), error |-> None]
Thrown(e) == [ok |-> FALSE, data |-> None, error |-> Some(e)]
NoResult == [ok |-> FALSE, data |-> None, error |-> None]

\* the retried branch of the try block: a 5xx that is not the last attempt
Retry5xxAlways(s, idx) == s >= 500
Retry5xx(s, idx) == s >= 500 /\ idx < MaxRetries - 1

\* the try block of retryRequest for one answer: return the response, sleep
\* and continue, or raise into the catch block
TryBlock(out, idx, body) ==
    IF out.net THEN [kind |-> "raise", error |-> NetworkError]
    ELSE IF ResponseOk(out.status) THEN [kind |-> "return", error |-> NoError]
    ELSE IF out.status = 403
         THEN [kind |-> "raise", error |-> RateLimitError(body)]
    ELSE IF Retry5xx(out.status, idx)
         THEN [kind |-> "continue", error |-> NoError]
    ELSE [kind |-> "raise", error |-> ApiError(out.status)]

\* the catch block: rethrow on the last attempt, otherwise sleep and go round
CatchRethrows(idx) == idx = MaxRetries - 1

\* the setTimeout argument after the attempt with loop index idx
ConstantDelay(idx) == BaseDelay
RetryDelay(idx) == BaseDelay * (idx + 1)

\* fetchGitHubGraphQL entry: the token check, then retryRequest starts
FetchEnter ==
    /\ pc = "fetch"
    /\ calls < MaxPages
    /\ calls' = calls + 1
    /\ i' = 0
    /\ httpLog' = <<>>
    /\ delays' = <<>>
    /\ payload' = None
    /\ IF Falsy(token)
       THEN /\ callResult' = Thrown(TokenRequired)
            /\ pc' = "returned"
       ELSE /\ callResult' = NoResult
            /\ pc' = "attempt"
    /\ UNCHANGED <<caller, token, featuredParam, limitParam, inFlight, requests,
                   allRepos, hasNextPage, endCursor, sentCursors, response>>
    /\ UNCHANGED clientVars

\* requestFn(): the POST leaves
SendRequest ==
    /\ pc = "attempt"
    /\ requests' = requests + 1
    /\ inFlight' = inFlight + 1
    /\ pc' = "inflight"
    /\ UNCHANGED <<caller, token, featuredParam, limitParam, i, httpLog, delays,
                   payload, callResult, calls, allRepos, hasNextPage, endCursor,
                   sentCursors, response>>
    /\ UNCHANGED clientVars

\* the loop's i++ and test, after a sleep
AfterSleep(idx) ==
    IF idx + 1 < MaxRetries
    THEN /\ pc' = "attempt"
         /\ callResult' = callResult
    ELSE /\ pc' = "returned"
         /\ callResult' = Thrown(MaxRetriesExceeded)

\* the awaited requestFn() settles: one pass through the loop body
Receive(out, body) ==
    /\ pc = "inflight"
    /\ inFlight' = inFlight - 1
    /\ httpLog' = Append(httpLog, out)
    /\ LET t == TryBlock(out, i, body)
       IN CASE t.kind = "return" ->
                 /\ pc' = "body"
                 /\ UNCHANGED <<i, delays, callResult>>
            [] t.kind = "continue" ->
                 /\ delays' = Append(delays, RetryDelay(i))
                 /\ i' = i + 1
                 /\ AfterSleep(i)
            [] OTHER ->
                 IF CatchRethrows(i)
                 THEN /\ callResult' = Thrown(t.error)
                      /\ pc' = "returned"
                      /\ UNCHANGED <<i, delays>>
                 ELSE /\ delays' = Append(delays, RetryDelay(i))
                      /\ i' = i + 1
                      /\ AfterSleep(i)
    /\ UNCHANGED <<caller, token, featuredParam, limitParam, payload, requests,
                   calls, allRepos, hasNextPage, endCursor, sentCursors, response>>
    /\ UNCHANGED clientVars

\* data.errors && data.errors.length > 0
HasErrors(p) == IsSome(p.errors) /\ Len(Get(p.errors)) > 0

\* fetchGitHubGraphQL after retryRequest returned: parse, errors, data
ParseResultDataFirst(p) ==
    IF ~p.valid THEN Thrown(JsonSyntaxError)
    ELSE IF IsSome(p.data) THEN Returned(Get(p.data))
    ELSE IF HasErrors(p) THEN Thrown(GraphQLErrors(Get(p.errors)))
    ELSE Thrown(NoDataError)
ParseResult(p) ==
    IF ~p.valid THEN Thrown(JsonSyntaxError)
    ELSE IF HasErrors(p) THEN Thrown(GraphQLErrors(Get(p.errors)))
    ELSE IF ~IsSome(p.data) THEN Thrown(NoDataError)
    ELSE Returned(Get(p.data))

-----------------------------------------------------------------------------
(* Upstream data: what the GraphQL API may answer *)

History(n) == Some([target |-> Some([history |-> Some([totalCount |-> Some(n)])])])
Langs == Some([totalSize |-> 10, edges |-> <<[size |-> 10, name |-> "TypeScript"]>>])
StarCount(n) == Some([totalCount |-> Some(n)])

Node(id, name, stargazers, forkCount, priv, arch, tmpl, languages, branch) ==
    [id |-> id, name |-> name, stargazers |-> stargazers, forkCount |-> forkCount,
     isPrivate |-> priv, isArchived |-> arch, isTemplate |-> tmpl,
     languages |-> languages, defaultBranchRef |-> branch]

RepoA == Node(1, <<"F", "o", "o">>, StarCount(1), Some(3), FALSE, FALSE, FALSE, Langs, History(7))
RepoB == Node(2, <<"b", "a", "r">>, StarCount(10), Some(0), FALSE, FALSE, FALSE, Langs, History(0))
RepoC == Node(3, <<"f", "o", "o", "2">>, StarCount(2), None, FALSE, FALSE, FALSE, None,
              Some([target |-> Some([history |-> None])]))
RepoD == Node(4, <<"b", "a", "z">>, None, None, FALSE, FALSE, FALSE, None, None)
RepoE == Node(5, <<"z", "a", "p">>, StarCount(10), Some(1), FALSE, FALSE, FALSE, Langs,
              Some([target |-> None]))
RepoP == Node(6, <<"f", "o", "o", "-", "p">>, StarCount(50), Some(2), TRUE, FALSE, FALSE, Langs, History(4))
RepoR == Node(7, <<"o", "l", "d">>, StarCount(20), Some(2), FALSE, TRUE, FALSE, Langs, History(9))
RepoF == Node(9, <<"q", "u", "x">>, StarCount(2), Some(1), FALSE, FALSE, FALSE, Langs,
              Some([target |-> Some([history |-> Some([totalCount |-> None])])]))
RepoT == Node(8, <<"F", "O", "-", "t">>, Some([totalCount |-> None]), Some(2), FALSE, FALSE, TRUE, None, History(1))

\* a full or large page: n distinct public repositories of one star each
BulkPage(n) == [k \in 1..n |-> Node(100 + k, <<"r", "e", "p", "o">>, StarCount(1), Some(0),
                                    FALSE, FALSE, FALSE, None, None)]

\* the nodes of one upstream page
PageNodes == {<<>>, <<RepoA, RepoB, RepoC>>, <<RepoE, RepoP, RepoR, RepoT, RepoD>>,
              BulkPage(60), BulkPage(100)}

PageInfo(next, cursor) == Some([hasNextPage |-> next, endCursor |-> cursor])

PageInfos == {None, PageInfo(Some(TRUE), Some("Y3Vyc29yOjE=")), PageInfo(Some(TRUE), None),
              PageInfo(Some(FALSE), Some("Y3Vyc29yOjI="))}

ReposPageData(nodes, info) ==
    [user |-> Some([repositories |-> Some([nodes |-> nodes, pageInfo |-> info])])]

\* GitHubGraphQLReposResponse
ReposData ==
    {[user |-> None], [user |-> Some([repositories |-> None])],
     ReposPageData(None, PageInfo(Some(TRUE), Some("Y3Vyc29yOjE=")))}
    \cup {ReposPageData(Some(n), pi) : n \in PageNodes, pi \in PageInfos}

\* one node of user.repositories.nodes in the stats query
StarNode(stargazers) == [stargazers |-> stargazers]

\* user.repositories of the stats query: absent, or {totalCount?, nodes?}
StarLists ==
    {<<>>, <<StarNode(StarCount(3)), StarNode(StarCount(0)), StarNode(StarCount(7))>>,
     <<StarNode(None), StarNode(StarCount(5)), StarNode(Some([totalCount |-> None]))>>}

UserRepositories ==
    {None}
    \cup {Some([totalCount |-> tc, nodes |-> ns]) :
             tc \in {None, Some(3)}, ns \in {None} \cup {Some(l) : l \in StarLists}}

\* the counters of the stats query other than the issue counts; each is
\* absent when either link of its chain (user.x?.count) is absent
CounterShapes ==
    {[commits |-> None, pullRequests |-> None, mergedPullRequests |-> None,
      reviews |-> None, repositoriesContributedTo |-> None, followers |-> None,
      following |-> None],
     [commits |-> Some(0), pullRequests |-> Some(0), mergedPullRequests |-> Some(0),
      reviews |-> Some(0), repositoriesContributedTo |-> Some(0), followers |-> Some(0),
      following |-> Some(0)],
     [commits |-> Some(11), pullRequests |-> Some(12), mergedPullRequests |-> Some(13),
      reviews |-> Some(14), repositoriesContributedTo |-> Some(15), followers |-> Some(16),
      following |-> Some(17)]}

\* GitHubGraphQLUserStats / GitHubGraphQLUserActivity (one query serves both)
StatsUser(name, repositories, shape, open, closed) ==
    [name |-> name, login |-> "octocat", avatarUrl |-> "https://avatars/octocat",
     repositories |-> repositories,
     commits |-> shape.commits, pullRequests |-> shape.pullRequests,
     mergedPullRequests |-> shape.mergedPullRequests, reviews |-> shape.reviews,
     repositoriesContributedTo |-> shape.repositoriesContributedTo,
     followers |-> shape.followers, following |-> shape.following,
     openIssues |-> open, closedIssues |-> closed]

StatsUsers ==
    {StatsUser(n, r, sh, o, c) :
        n \in {None, Some("The Octocat")}, r \in UserRepositories, sh \in CounterShapes,
        o \in {None, Some(0), Some(4)}, c \in {None, Some(0), Some(9)}}

FullShape == CHOOSE sh \in CounterShapes : sh.commits = Some(11)
BareShape == CHOOSE sh \in CounterShapes : sh.commits = None
ThreeStars == CHOOSE l \in StarLists : Len(l) = 3 /\ l[1] = StarNode(StarCount(3))

\* the users followed through a whole request
SampleUsers ==
    {StatsUser(Some("The Octocat"), Some([totalCount |-> Some(3), nodes |-> Some(ThreeStars)]),
               FullShape, Some(4), Some(9)),
     StatsUser(None, Some([totalCount |-> None, nodes |-> Some(<<>>)]), BareShape, None, Some(9)),
     StatsUser(None, None, BareShape, None, None)}

\* the user object of the stats query
UserData == {[user |-> None]} \cup {[user |-> Some(u)] : u \in SampleUsers}

AllUserData == {[user |-> None]} \cup {[user |-> Some(u)] : u \in StatsUsers}

Day(date, count) == [date |-> date, contributionCount |-> count, color |-> "#9be9a8"]
WeekOne == [contributionDays |-> <<Day("2026-01-04", 0), Day("2026-01-05", 3)>>]
WeekTwo == [contributionDays |-> <<Day("2026-01-12", 2), Day("2026-01-11", 1)>>]

\* contributionCalendar.weeks: absent, or weeks in whatever order upstream sent
WeekLists == {None, Some(<<>>), Some(<<WeekOne, WeekTwo>>), Some(<<WeekTwo, WeekOne, WeekTwo>>)}

Calendars ==
    {None} \cup {Some([totalContributions |-> t, weeks |-> w]) :
                    t \in {None, Some(0), Some(6)}, w \in WeekLists}

\* GitHubGraphQLContributions
AllContributionsData ==
    {[user |-> None], [user |-> Some([contributionsCollection |-> None])]}
    \cup {[user |-> Some([contributionsCollection |-> Some([contributionCalendar |-> cal])])] :
             cal \in Calendars}

ContributionsData ==
    {[user |-> None], [user |-> Some([contributionsCollection |-> None])],
     [user |-> Some([contributionsCollection |-> Some([contributionCalendar |-> None])])],
     [user |-> Some([contributionsCollection |-> Some([contributionCalendar |->
         Some([totalContributions |-> Some(6), weeks |-> Some(<<WeekOne, WeekTwo>>)])])])]}

DataFor(c) ==
    IF c \in {"repos", "direct"} THEN ReposData
    ELSE IF c = "contributions" THEN ContributionsData
    ELSE UserData

\* the GraphQL-level errors array of a 2xx answer
ErrorArrays == {Some(<<>>), Some(<<"Field 'x' doesn't exist">>),
                Some(<<"Something went wrong", "Timeout">>)}

SampleData(c) == IF c \in {"repos", "direct"}
                 THEN ReposPageData(Some(<<RepoA, RepoB, RepoC>>), PageInfo(Some(FALSE), None))
                 ELSE IF c = "contributions"
                 THEN [user |-> Some([contributionsCollection |-> Some([contributionCalendar |-> None])])]
                 ELSE [user |-> Some(StatsUser(None, None, BareShape, None, None))]

\* what response.json() resolves to for a 2xx answer: a body that does not
\* parse, or {data?, errors?}
Payloads(c) ==
    {[valid |-> FALSE, errors |-> None, data |-> None]}
    \cup {[valid |-> TRUE, errors |-> None, data |-> d] : d \in {None} \cup {Some(x) : x \in DataFor(c)}}
    \cup {[valid |-> TRUE, errors |-> e, data |-> d] :
             e \in ErrorArrays, d \in {None, Some(SampleData(c))}}

-----------------------------------------------------------------------------
(* The inbound request *)

Routes == {"stats", "activity", "contributions", "repos"}
Callers == Routes \cup {"direct"}

Tokens == {None, Some(""), Some("ghp_token")}

\* ?featured=...
FeaturedParams == {None, Some(<<>>), Some(<<"f", "o">>), Some(<<"Z", "A", ",", ",", "f", "o", "o", "2">>)}

\* ?limit=...
LimitParams == {None, Some(<<>>), Some(<<"0">>), Some(<<"2">>), Some(<<"4">>),
                Some(<<"-", "1">>), Some(<<"a", "b", "c">>)}

\* the query strings followed through a whole request
RequestFeatured == {None, Some(<<"f", "o">>)}
RequestLimits == {None, Some(<<"2">>)}

CacheControl == "public, s-maxage=3600, stale-while-revalidate=86400"

NoResponse == [status |-> 0, error |-> "", body |-> None, cache |-> ""]
ErrorResponse(status, msg) == [status |-> status, error |-> msg, body |-> None, cache |-> ""]
OkResponseNoCache(body) == [status |-> 200, error |-> "", body |-> Some(body), cache |-> ""]
OkResponse(body) == [status |-> 200, error |-> "", body |-> Some(body), cache |-> CacheControl]

\* the message of each route's catch block
FailMessage(c) ==
    CASE c = "stats" -> "Failed to fetch GitHub stats"
      [] c = "activity" -> "Failed to fetch GitHub activity"
      [] c = "contributions" -> "Failed to fetch GitHub contributions"
      [] OTHER -> "Failed to fetch GitHub repositories"

-----------------------------------------------------------------------------
(* /repos: filter, prioritise, sort, truncate, normalise *)

\* the accumulation ceiling of the pagination loop
RepoCap == 100

\* searchParams.get('featured')?.split(',').filter(Boolean) || []
FeaturedList(param) ==
    IF IsSome(param) THEN SelectSeq(Split(Get(param), ","), NonEmpty) ELSE <<>>

\* parseInt(searchParams.get('limit') || '10', 10)
LimitOfNoDefault(param) == ParseInt(IF IsSome(param) THEN Get(param) ELSE <<>>)
LimitOf(param) ==
    ParseInt(IF IsSome(param) /\ Get(param) # <<>> THEN Get(param) ELSE <<"1", "0">>)

KeepsArchived(repo) == ~repo.isPrivate /\ ~repo.isTemplate
IsPublic(repo) == ~repo.isPrivate /\ ~repo.isArchived /\ ~repo.isTemplate

\* featured.some(name => repo.name.toLowerCase().includes(name.toLowerCase()))
MatchesFeatured(repo, featured) ==
    \E k \in 1..Len(featured) :
        Includes(ToLowerCase(repo.name), ToLowerCase(featured[k]))

\* [...featuredRepos, ...otherRepos] when a featured list was given
Prioritize(repos, featured) ==
    LET isF(r) == MatchesFeatured(r, featured)
        notF(r) == ~MatchesFeatured(r, featured)
    IN IF Len(featured) > 0
       THEN SelectSeq(repos, isF) \o SelectSeq(repos, notF)
       ELSE repos

\* repo.stargazers?.totalCount || 0
Stars(repo) ==
    IF IsSome(repo.stargazers) THEN OrZero(Get(repo.stargazers).totalCount) ELSE 0

\* the sort comparator (a, b) => stars(b) - stars(a), on the two star counts
AscendingCompare(sa, sb) == sa - sb
Compare(sa, sb) == sb - sa

\* Array.prototype.sort with this comparator. The library sort is stable, so
\* the result is the elements grouped by star count, the groups in the
\* comparator's order and each group in its prior order.
RECURSIVE SortGroupsReversing(_, _)
SortGroupsReversing(seq, keys) ==
    IF keys = {} THEN <<>>
    ELSE LET first == CHOOSE v \in keys : \A w \in keys : Compare(v, w) <= 0
             inGroup(r) == Stars(r) = first
         IN Reverse(SelectSeq(seq, inGroup)) \o SortGroupsReversing(seq, keys \ {first})
RECURSIVE SortGroups(_, _)
SortGroups(seq, keys) ==
    IF keys = {} THEN <<>>
    ELSE LET first == CHOOSE v \in keys : \A w \in keys : Compare(v, w) <= 0
             inGroup(r) == Stars(r) = first
         IN SelectSeq(seq, inGroup) \o SortGroups(seq, keys \ {first})

SortByStars(seq) == SortGroups(seq, {Stars(seq[j]) : j \in 1..Len(seq)})

\* repo.defaultBranchRef?.target?.history?.totalCount
HistoryCountTruthy(repo) ==
    IF ~IsSome(repo.defaultBranchRef) THEN None
    ELSE IF ~IsSome(Get(repo.defaultBranchRef).target) THEN None
    ELSE IF ~IsSome(Get(Get(repo.defaultBranchRef).target).history) THEN None
    ELSE IF Get(Get(Get(repo.defaultBranchRef).target).history).totalCount = Some(0) THEN None
    ELSE Get(Get(Get(repo.defaultBranchRef).target).history).totalCount
HistoryCount(repo) ==
    IF ~IsSome(repo.defaultBranchRef) THEN None
    ELSE IF ~IsSome(Get(repo.defaultBranchRef).target) THEN None
    ELSE IF ~IsSome(Get(Get(repo.defaultBranchRef).target).history) THEN None
    ELSE Get(Get(Get(repo.defaultBranchRef).target).history).totalCount

\* the GitHubRepository built for one node
Summary(repo) ==
    [id |-> repo.id, name |-> repo.name,
     stargazerCount |-> Stars(repo),
     forkCount |-> OrZero(repo.forkCount),
     isPrivate |-> repo.isPrivate, isArchived |-> repo.isArchived,
     isTemplate |-> repo.isTemplate,
     languages |-> IF IsSome(repo.languages) THEN Get(repo.languages)
                   ELSE [totalSize |-> 0, edges |-> <<>>],
     defaultBranchRef |-> IF IsSome(HistoryCount(repo))
                          THEN Some([target |-> [history |-> [totalCount |-> Get(HistoryCount(repo))]]])
                          ELSE None]

\* the repositories of the 200 response, from the accumulated nodes
Repositories(repos, fparam, lparam) ==
    LET publicRepos == SelectSeq(repos, IsPublic)
        ordered == SortByStars(Prioritize(publicRepos, FeaturedList(fparam)))
        top == Slice0(ordered, LimitOf(lparam))
    IN [k \in 1..Len(top) |-> Summary(top[k])]

-----------------------------------------------------------------------------
(* The route handlers *)

reqVars == <<caller, token, featuredParam, limitParam>>
retryVars == <<i, httpLog, delays, inFlight>>
loopVars == <<allRepos, hasNextPage, endCursor, sentCursors>>

\* the Requests of the page component, in the order it handles them
Fetches == <<"stats", "repos", "activity">>

FetchNames == {Fetches[k] : k \in 1..Len(Fetches)}

\* GithubSection before its data effect ran: the useState initial values
ClientIdle ==
    /\ cpc = "unmounted"
    /\ settled = [r \in FetchNames |-> "unsent"]
    /\ bodyRead = [r \in FetchNames |-> "unread"]
    /\ stats = None
    /\ repositoriesState = <<>>
    /\ activity = None
    /\ loading = TRUE
    /\ error = None

Init ==
    /\ caller \in Callers
    /\ token \in Tokens
    /\ featuredParam \in (IF caller = "repos" THEN RequestFeatured ELSE {None})
    /\ limitParam \in (IF caller = "repos" THEN RequestLimits ELSE {None})
    /\ pc = IF caller = "direct" THEN "fetch" ELSE "start"
    /\ i = 0
    /\ httpLog = <<>>
    /\ delays = <<>>
    /\ inFlight = 0
    /\ payload = None
    /\ callResult = NoResult
    /\ requests = 0
    /\ calls = 0
    /\ allRepos = <<>>
    /\ hasNextPage = TRUE
    /\ endCursor = None
    /\ sentCursors = <<>>
    /\ response = NoResponse
    /\ ClientIdle

\* while (hasNextPage && allRepos.length < 100)
LoopContinues(next, repos) == next /\ Len(repos) < RepoCap

\* GET: the token check, then the first (for /repos: the first page's) call
HandlerStart ==
    /\ pc = "start"
    /\ caller \in Routes
    /\ IF Falsy(token)
       THEN /\ response' = ErrorResponse(500, "GitHub token not configured")
            /\ pc' = "done"
            /\ UNCHANGED sentCursors
       ELSE /\ pc' = "fetch"
            /\ sentCursors' = IF caller = "repos" THEN <<endCursor>> ELSE sentCursors
            /\ UNCHANGED response
    /\ UNCHANGED <<reqVars, retryVars, payload, callResult, requests, calls,
                   allRepos, hasNextPage, endCursor>>
    /\ UNCHANGED clientVars

\* the awaited call has settled and its frame is gone
CallConsumed ==
    /\ i' = 0
    /\ httpLog' = <<>>
    /\ delays' = <<>>
    /\ payload' = None
    /\ callResult' = NoResult
    /\ UNCHANGED inFlight

\* the body a route's catch block answers with: the error is logged, the
\* client gets the route's fixed message
CatchBodyLeaks(c, err) == err.msg
CatchBody(c, err) == FailMessage(c)

\* the catch block of a route: every thrown error becomes the generic 500
HandlerCatchRetries ==
    /\ pc = "returned"
    /\ caller \in Routes
    /\ ~callResult.ok
    /\ pc' = "fetch"
    /\ CallConsumed
    /\ UNCHANGED <<reqVars, requests, calls, loopVars, response>>
    /\ UNCHANGED clientVars
HandlerCatchPartial ==
    /\ pc = "returned"
    /\ caller \in Routes
    /\ ~callResult.ok
    /\ response' = IF caller = "repos" /\ Len(allRepos) > 0
                   THEN OkResponse(Repositories(allRepos, featuredParam, limitParam))
                   ELSE ErrorResponse(500, CatchBody(caller, Get(callResult.error)))
    /\ pc' = "done"
    /\ CallConsumed
    /\ UNCHANGED <<reqVars, requests, calls, loopVars>>
    /\ UNCHANGED clientVars
HandlerCatch ==
    /\ pc = "returned"
    /\ caller \in Routes
    /\ ~callResult.ok
    /\ response' = ErrorResponse(500, CatchBody(caller, Get(callResult.error)))
    /\ pc' = "done"
    /\ CallConsumed
    /\ UNCHANGED <<reqVars, requests, calls, loopVars>>
    /\ UNCHANGED clientVars

\* data.user?.repositories of a page
PageRepositories(data) ==
    IF IsSome(data.user) THEN Get(data.user).repositories ELSE None

\* data.user?.repositories?.nodes || []
PageNodesOf(data) ==
    LET r == PageRepositories(data)
    IN IF IsSome(r) /\ IsSome(Get(r).nodes) THEN Get(Get(r).nodes) ELSE <<>>

\* data.user?.repositories?.pageInfo?.hasNextPage || false
PageHasNext(data) ==
    LET r == PageRepositories(data)
    IN IF IsSome(r) /\ IsSome(Get(r).pageInfo) /\ IsSome(Get(Get(r).pageInfo).hasNextPage)
       THEN Get(Get(Get(r).pageInfo).hasNextPage)
       ELSE FALSE

\* data.user?.repositories?.pageInfo?.endCursor || null
PageEndCursorForgotten(data) == None
PageEndCursor(data) ==
    LET r == PageRepositories(data)
    IN IF IsSome(r) /\ IsSome(Get(r).pageInfo) /\ IsSome(Get(Get(r).pageInfo).endCursor)
          /\ Get(Get(Get(r).pageInfo).endCursor) # ""
       THEN Get(Get(r).pageInfo).endCursor
       ELSE None

\* /repos: one page arrived; accumulate, then test the loop condition. The
\* last page's payload is kept until the handler returns.
ReposPage ==
    /\ pc = "returned"
    /\ caller = "repos"
    /\ callResult.ok
    /\ LET data == Get(callResult.data)
           repos == allRepos \o PageNodesOf(data)
           next == PageHasNext(data)
           cursor == PageEndCursor(data)
       IN /\ allRepos' = repos
          /\ hasNextPage' = next
          /\ endCursor' = cursor
          /\ IF LoopContinues(next, repos)
             THEN /\ pc' = "fetch"
                  /\ sentCursors' = Append(sentCursors, cursor)
             ELSE /\ pc' = "process"
                  /\ UNCHANGED sentCursors
          /\ payload' = IF LoopContinues(next, repos) THEN None ELSE payload
    /\ i' = 0
    /\ httpLog' = <<>>
    /\ delays' = <<>>
    /\ callResult' = NoResult
    /\ UNCHANGED <<reqVars, inFlight, requests, calls, response>>
    /\ UNCHANGED clientVars

\* /repos: the loop is over; build the 200 response
ReposRespondNotFound ==
    /\ pc = "process"
    /\ caller = "repos"
    /\ response' = IF allRepos = <<>>
                   THEN ErrorResponse(404, "User not found")
                   ELSE OkResponse(Repositories(allRepos, featuredParam, limitParam))
    /\ pc' = "done"
    /\ UNCHANGED <<reqVars, retryVars, payload, callResult, requests, calls, loopVars>>
    /\ UNCHANGED clientVars
ReposRespond ==
    /\ pc = "process"
    /\ caller = "repos"
    /\ response' = OkResponse(Repositories(allRepos, featuredParam, limitParam))
    /\ pc' = "done"
    /\ UNCHANGED <<reqVars, retryVars, payload, callResult, requests, calls, loopVars>>
    /\ UNCHANGED clientVars

\* !user (/stats, /activity), !data.user?.contributionsCollection (/contributions)
EntityAbsent(c, data) ==
    IF c = "contributions"
    THEN ~IsSome(data.user) \/ ~IsSome(Get(data.user).contributionsCollection)
    ELSE ~IsSome(data.user)

NotFoundMessage(c) ==
    IF c = "contributions" THEN "Contributions data not found" ELSE "User not found"

\* (sum, repo) => sum + (repo.stargazers?.totalCount || 0)
StarReducerOverwrites(sum, repo) == Stars(repo)
StarReducer(sum, repo) == sum + Stars(repo)

\* nodes.reduce(reducer, sum) from index k on
RECURSIVE ReduceFrom(_, _, _)
ReduceFrom(nodes, k, sum) ==
    IF k > Len(nodes) THEN sum ELSE ReduceFrom(nodes, k + 1, StarReducer(sum, nodes[k]))

TotalStars(nodes) == ReduceFrom(nodes, 1, 0)

\* (user.openIssues?.totalCount || 0) + (user.closedIssues?.totalCount || 0)
IssueTotalOpenOnly(open, closed) == OrZero(open)
IssueTotal(open, closed) == OrZero(open) + OrZero(closed)

\* user.name || user.login
DisplayName(user) ==
    IF IsSome(user.name) /\ Get(user.name) # "" THEN Get(user.name) ELSE user.login

\* user.repositories.nodes.reduce(...) dereferences without a guard: a user
\* without repositories, or repositories without nodes, is a TypeError
StatsThrows(user) ==
    ~IsSome(user.repositories) \/ ~IsSome(Get(user.repositories).nodes)

TypeError == Err("Cannot read properties of undefined", 0, <<>>)

\* the stats object; totalRepos is user.repositories.totalCount as it came
StatsBody(user) ==
    [name |-> DisplayName(user), login |-> user.login, avatarUrl |-> user.avatarUrl,
     totalRepos |-> Get(user.repositories).totalCount,
     totalStars |-> TotalStars(Get(Get(user.repositories).nodes)),
     totalCommits |-> OrZero(user.commits),
     totalPRs |-> OrZero(user.pullRequests),
     totalPRsMerged |-> OrZero(user.mergedPullRequests),
     totalReviews |-> OrZero(user.reviews),
     totalIssues |-> IssueTotal(user.openIssues, user.closedIssues),
     contributedTo |-> OrZero(user.repositoriesContributedTo),
     followers |-> OrZero(user.followers),
     following |-> OrZero(user.following)]

\* the activity object
ActivityBody(user) ==
    [commits |-> OrZero(user.commits),
     pullRequests |-> OrZero(user.pullRequests),
     repositoriesContributedTo |-> OrZero(user.repositoriesContributedTo),
     issues |-> IssueTotal(user.openIssues, user.closedIssues),
     reviews |-> OrZero(user.reviews)]

\* contributions.contributionCalendar?.weeks || []
CalendarWeeksNewestFirst(cal) ==
    IF IsSome(cal) /\ IsSome(Get(cal).weeks) THEN Reverse(Get(Get(cal).weeks)) ELSE <<>>
CalendarWeeks(cal) ==
    IF IsSome(cal) /\ IsSome(Get(cal).weeks) THEN Get(Get(cal).weeks) ELSE <<>>

\* contributions.contributionCalendar?.totalContributions || 0
CalendarTotal(cal) == IF IsSome(cal) THEN OrZero(Get(cal).totalContributions) ELSE 0

\* the contributions object
ContributionsBody(collection) ==
    [totalContributions |-> CalendarTotal(collection.contributionCalendar),
     weeks |-> CalendarWeeks(collection.contributionCalendar)]

\* the entity a single-call route answers with
EntityBody(c, data) ==
    CASE c = "contributions" -> ContributionsBody(Get(Get(data.user).contributionsCollection))
      [] c = "activity" -> ActivityBody(Get(data.user))
      [] OTHER -> StatsBody(Get(data.user))

\* building the entity throws (only /stats dereferences unguarded)
EntityThrows(c, data) == c = "stats" /\ StatsThrows(Get(data.user))

\* the 404 of a route whose entity is absent
AbsentResponseDefaulted(c) ==
    OkResponse(IF c = "contributions"
               THEN [totalContributions |-> 0, weeks |-> <<>>]
               ELSE [commits |-> 0, pullRequests |-> 0, repositoriesContributedTo |-> 0,
                     issues |-> 0, reviews |-> 0])
AbsentResponse(c) == ErrorResponse(404, NotFoundMessage(c))

\* /stats, /activity, /contributions: 404 when the entity is absent, the
\* normalised entity otherwise; a throw while normalising lands in the catch
\* block. The parsed payload stays in scope until the handler returns.
EntityRespond ==
    /\ pc = "returned"
    /\ caller \in Routes \ {"repos"}
    /\ callResult.ok
    /\ LET data == Get(callResult.data)
       IN response' = IF EntityAbsent(caller, data)
                      THEN AbsentResponse(caller)
                      ELSE IF EntityThrows(caller, data)
                      THEN ErrorResponse(500, CatchBody(caller, TypeError))
                      ELSE OkResponse(EntityBody(caller, data))
    /\ pc' = "done"
    /\ i' = 0
    /\ httpLog' = <<>>
    /\ delays' = <<>>
    /\ callResult' = NoResult
    /\ UNCHANGED <<reqVars, inFlight, payload, requests, calls, loopVars>>
    /\ UNCHANGED clientVars

\* await response.json() settles and fetchGitHubGraphQL returns or throws
ParseBody ==
    /\ pc = "body"
    /\ \E p \in Payloads(caller) :
          /\ payload' = Some(p)
          /\ callResult' = ParseResult(p)
    /\ pc' = "returned"
    /\ UNCHANGED <<reqVars, retryVars, requests, calls, loopVars, response>>
    /\ UNCHANGED clientVars

ReceiveAny == \E out \in Outcomes, body \in ErrorBodies : Receive(out, body)

Next ==
    \/ HandlerStart
    \/ FetchEnter
    \/ SendRequest
    \/ ReceiveAny
    \/ ParseBody
    \/ HandlerCatch
    \/ ReposPage
    \/ ReposRespond
    \/ EntityRespond

Spec == Init /\ [][Next]_vars

-----------------------------------------------------------------------------
(* The /repos pipeline on its own: the handler just after its pagination    *)
(* loop ended on a single page, for every short list of nodes and every     *)
(* query string.                                                            *)

RepoUniverse == {RepoA, RepoB, RepoC, RepoD, RepoE, RepoF, RepoP, RepoR, RepoT}

RECURSIVE SeqsUpTo(_, _)
SeqsUpTo(S, n) ==
    IF n = 0 THEN {<<>>}
    ELSE LET shorter == SeqsUpTo(S, n - 1)
         IN shorter \cup {Append(q, x) : q \in {r \in shorter : Len(r) = n - 1}, x \in S}

InitPipeline ==
    /\ caller = "repos"
    /\ token = Some("ghp_token")
    /\ featuredParam \in FeaturedParams
    /\ limitParam \in LimitParams
    /\ pc = "process"
    /\ i = 0
    /\ httpLog = <<>>
    /\ delays = <<>>
    /\ inFlight = 0
    /\ payload = None
    /\ callResult = NoResult
    /\ requests = 1
    /\ calls = 1
    /\ allRepos \in SeqsUpTo(RepoUniverse, MaxRepos)
    /\ hasNextPage = FALSE
    /\ endCursor = None
    /\ sentCursors = <<None>>
    /\ response = NoResponse
    /\ ClientIdle

NextPipeline == ReposRespond

SpecPipeline == InitPipeline /\ [][NextPipeline]_vars

-----------------------------------------------------------------------------
(* The single-call routes on their own: the handler just after its one      *)
(* upstream call returned on the first attempt, for every shape of the      *)
(* user object and of the contributions collection.                         *)

EntityRoutes == Routes \ {"repos"}

EntityData(c) == IF c = "contributions" THEN AllContributionsData ELSE AllUserData

InitEntity ==
    /\ caller \in EntityRoutes
    /\ token = Some("ghp_token")
    /\ featuredParam = None
    /\ limitParam = None
    /\ pc = "returned"
    /\ i = 0
    /\ httpLog = <<[net |-> FALSE, status |-> 200]>>
    /\ delays = <<>>
    /\ inFlight = 0
    /\ \E d \in EntityData(caller) :
          /\ payload = Some([valid |-> TRUE, errors |-> None, data |-> Some(d)])
          /\ callResult = ParseResult(Get(payload))
    /\ requests = 1
    /\ calls = 1
    /\ allRepos = <<>>
    /\ hasNextPage = TRUE
    /\ endCursor = None
    /\ sentCursors = <<>>
    /\ response = NoResponse
    /\ ClientIdle

NextEntity == EntityRespond

SpecEntity == InitEntity /\ [][NextEntity]_vars

-----------------------------------------------------------------------------
(* GithubSection: the data effect of the page component. The three routes   *)
(* are seen from outside: each fetch settles in one of three ways, and the  *)
(* body of an ok response is read later, when the result is handled.        *)

\* how a fetch promise settles: rejected, fulfilled with !ok, fulfilled ok
FetchOutcomes == {"rejected", "notOk", "ok"}

\* how response.json() and the use of its value go: fine, or a throw
BodyOutcomes == {"parsed", "failed"}

\* the server side at rest while the component is followed
ServerIdle ==
    /\ caller = "stats"
    /\ token = Some("ghp_token")
    /\ featuredParam = None
    /\ limitParam = None
    /\ pc = "start"
    /\ i = 0
    /\ httpLog = <<>>
    /\ delays = <<>>
    /\ inFlight = 0
    /\ payload = None
    /\ callResult = NoResult
    /\ requests = 0
    /\ calls = 0
    /\ allRepos = <<>>
    /\ hasNextPage = TRUE
    /\ endCursor = None
    /\ sentCursors = <<>>
    /\ response = NoResponse

InitClient == ServerIdle /\ ClientIdle

\* fetchGitHubData starts: setLoading(true), setError(null), three fetches leave
MountEffect ==
    /\ cpc = "unmounted"
    /\ loading' = TRUE
    /\ error' = None
    /\ settled' = [r \in FetchNames |-> "pending"]
    /\ cpc' = "waiting"
    /\ UNCHANGED <<bodyRead, stats, repositoriesState, activity, serverVars>>

\* one of the pending fetches settles; Promise.allSettled resolves with the last
FetchSettles(r, o) ==
    /\ cpc = "waiting"
    /\ settled[r] = "pending"
    /\ settled' = [settled EXCEPT ![r] = o]
    /\ cpc' = IF \A q \in FetchNames \ {r} : settled[q] # "pending"
              THEN Fetches[1] ELSE "waiting"
    /\ UNCHANGED <<bodyRead, stats, repositoriesState, activity, loading, error, serverVars>>

\* where control goes after the if/else of result k
AfterResult(k) == IF k < Len(Fetches) THEN Fetches[k + 1] ELSE "finally"

\* the setter of result k, called with the parsed body
SetState(k) ==
    /\ stats' = IF k = 1 THEN Some("statsData") ELSE stats
    /\ repositoriesState' = IF k = 2 THEN <<"formattedRepo">> ELSE repositoriesState
    /\ activity' = IF k = 3 THEN Some("activityData") ELSE activity

\* if (res.status === 'fulfilled' && res.value.ok) { await res.value.json(); set...(data) }
\* a throw in the block leaves the try
HandleResult(k, b) ==
    /\ cpc = Fetches[k]
    /\ IF settled[Fetches[k]] = "ok"
       THEN /\ bodyRead' = [bodyRead EXCEPT ![Fetches[k]] = b]
            /\ IF b = "parsed"
               THEN SetState(k) /\ cpc' = AfterResult(k)
               ELSE /\ cpc' = "catch"
                    /\ UNCHANGED <<stats, repositoriesState, activity>>
       ELSE /\ cpc' = AfterResult(k)
            /\ UNCHANGED <<bodyRead, stats, repositoriesState, activity>>
    /\ UNCHANGED <<settled, loading, error, serverVars>>

\* catch (err) { setError(...) }
CatchError ==
    /\ cpc = "catch"
    /\ error' = Some("Failed to load GitHub data")
    /\ cpc' = "finally"
    /\ UNCHANGED <<settled, bodyRead, stats, repositoriesState, activity, loading, serverVars>>

\* finally { setLoading(false) }
Finally ==
    /\ cpc = "finally"
    /\ loading' = FALSE
    /\ cpc' = "done"
    /\ UNCHANGED <<settled, bodyRead, stats, repositoriesState, activity, error, serverVars>>

FetchSettlesAny == \E r \in FetchNames, o \in FetchOutcomes : FetchSettles(r, o)

HandleResultAny == \E k \in 1..Len(Fetches), b \in BodyOutcomes : HandleResult(k, b)

NextClient ==
    \/ MountEffect
    \/ FetchSettlesAny
    \/ HandleResultAny
    \/ CatchError
    \/ Finally

SpecClient == InitClient /\ [][NextClient]_vars

-----------------------------------------------------------------------------
(* Properties of the transport *)

Transient(out) == out.net \/ out.status >= 500
Is403(out) == ~out.net /\ out.status = 403
IsOtherClientError(out) ==
    ~out.net /\ ~(out.status >= 200 /\ out.status <= 299) /\ out.status # 403 /\ out.status < 500
Is2xx(out) == ~out.net /\ out.status >= 200 /\ out.status <= 299

CallFinished == pc = "returned"

\* C1: when the first HTTP response of a call is a 403, that call issues
\* exactly one HTTP request and has failed with the rate-limit error.
C1_NoRetryAfter403 ==
    (Len(httpLog) >= 1 /\ Is403(httpLog[1])) =>
        /\ Len(httpLog) = 1
        /\ inFlight = 0
        /\ CallFinished
        /\ ~callResult.ok
        /\ IsSome(callResult.error)
        /\ Get(callResult.error).msg = "GitHub API rate limit exceeded: "

\* C3: a non-2xx answer that is neither 403 nor 5xx ends the call at once
\* with the error carrying its status and status text; it is the last
\* request of the call.
C3_NoRetryAfterClientError ==
    \A k \in 1..Len(httpLog) :
        IsOtherClientError(httpLog[k]) =>
            /\ k = Len(httpLog)
            /\ inFlight = 0
            /\ CallFinished
            /\ callResult = Thrown(ApiError(httpLog[k].status))

\* C4: a call never issues more than 3 HTTP requests; a call all of whose
\* attempts ended in a 5xx or a network failure has issued exactly 3 and
\* fails with the error of the third; 'Max retries exceeded' never surfaces.
C4_ExhaustedRetries ==
    /\ Len(httpLog) + inFlight <= 3
    /\ callResult # Thrown(MaxRetriesExceeded)
    /\ (CallFinished /\ Len(httpLog) >= 1 /\ \A k \in 1..Len(httpLog) : Transient(httpLog[k])) =>
          /\ Len(httpLog) = 3
          /\ callResult = Thrown(IF httpLog[3].net THEN NetworkError
                                 ELSE ApiError(httpLog[3].status))

C4_Witness ==
    /\ CallFinished
    /\ Len(httpLog) = 3
    /\ httpLog[1].status = 500
    /\ httpLog[2].net
    /\ httpLog[3].status = 500
    /\ callResult = Thrown(ApiError(500))

\* C5: when attempts 1..k-1 ended in a 5xx or a network failure and attempt
\* k is answered 2xx, attempt k is the last request of the call and the call
\* hands back what that response carries.
C5_SuccessAfterTransient ==
    \A k \in 1..Len(httpLog) :
        (Is2xx(httpLog[k]) /\ \A j \in 1..(k - 1) : Transient(httpLog[j])) =>
            /\ k = Len(httpLog)
            /\ inFlight = 0
            /\ pc \in {"body", "returned"}
            /\ (pc = "returned" /\ Get(payload).valid /\ IsSome(Get(payload).data)
                  /\ (IsSome(Get(payload).errors) => Get(Get(payload).errors) = <<>>))
                 => callResult = Returned(Get(Get(payload).data))

C5_Witness ==
    /\ CallFinished
    /\ Len(httpLog) = 3
    /\ httpLog[1].status = 500
    /\ httpLog[2].status = 500
    /\ httpLog[3].status = 200
    /\ callResult.ok
    /\ requests = 3

\* C6: with the credential absent or empty no HTTP request is ever issued:
\* fetchGitHubGraphQL throws before fetch, and every route answers 500 with
\* an error body.
C6_NoTokenNoRequest ==
    (token = None \/ token = Some("")) =>
        /\ requests = 0
        /\ inFlight = 0
        /\ pc \in {"start", "fetch", "returned", "done"}
        /\ (caller = "direct" /\ pc = "returned") => callResult = Thrown(TokenRequired)
        /\ caller \in Routes => pc \in {"start", "done"}
        /\ (caller \in Routes /\ pc = "done") =>
              /\ response.status = 500
              /\ response.error # ""
              /\ response.body = None

C6_Witness ==
    /\ token = Some("")
    /\ caller = "contributions"
    /\ pc = "done"
    /\ response = ErrorResponse(500, "GitHub token not configured")
    /\ requests = 0

\* the pieces of a joined message, separators dropped
Pieces(joined) == [k \in 1..((Len(joined) + 1) \div 2) |-> joined[2 * k - 1]]

ErrorsOf(p) == IF IsSome(p.errors) THEN Get(p.errors) ELSE <<>>

\* C7 as stated: a 2xx payload that carries an errors array makes the call
\* fail with the joined messages.
C7_AnyErrorsArrayFails ==
    (CallFinished /\ IsSome(payload) /\ Get(payload).valid /\ IsSome(Get(payload).errors)) =>
        /\ ~callResult.ok
        /\ Get(callResult.error).msg = "GraphQL errors: "

\* C7: a 2xx payload that carries a non-empty errors array makes the call
\* fail with an error holding every message, in order, joined by ", ", also
\* when data is present; no request follows it.
C7_ErrorsFail ==
    /\ [](  (CallFinished /\ IsSome(payload) /\ Get(payload).valid
               /\ Len(ErrorsOf(Get(payload))) > 0) =>
              /\ ~callResult.ok
              /\ Get(callResult.error).msg = "GraphQL errors: "
              /\ Pieces(Get(callResult.error).detail) = ErrorsOf(Get(payload))
              /\ \A k \in 1..(Len(ErrorsOf(Get(payload))) - 1) :
                    Get(callResult.error).detail[2 * k] = ", ")
    /\ [][ (IsSome(payload) /\ Get(payload).valid /\ Len(ErrorsOf(Get(payload))) > 0) =>
              /\ requests' = requests
              /\ calls' = calls
              /\ pc' = "done" ]_vars

C7_Witness ==
    /\ CallFinished
    /\ IsSome(payload)
    /\ Len(ErrorsOf(Get(payload))) = 2
    /\ IsSome(Get(payload).data)
    /\ callResult = Thrown(Err("GraphQL errors: ", 0, <<"Something went wrong", ", ", "Timeout">>))

\* C28: the wait between attempts grows linearly: the delay after failed
\* attempt n (n = 1, 2) is 1000 * n ms; exactly one delay separates two
\* consecutive attempts; no delay follows the last attempt of a call.
C28_LinearDelays ==
    /\ Len(delays) <= 2
    /\ \A n \in 1..Len(delays) : delays[n] = 1000 * n
    /\ pc \in {"attempt", "inflight"} => Len(delays) = Len(httpLog)
    /\ pc \in {"body", "returned"} /\ Len(httpLog) >= 1 => Len(delays) = Len(httpLog) - 1

\* three attempts failed: 1000 ms and 2000 ms were waited, nothing after the third
C28_Witness ==
    /\ pc = "returned"
    /\ ~callResult.ok
    /\ Len(httpLog) = 3
    /\ delays = <<1000, 2000>>

-----------------------------------------------------------------------------
(* Properties of /repos *)

Answered200 == pc = "done" /\ response.status = 200

ResponseRepos == Get(response.body)

\* whether a repository name contains one of the featured fragments,
\* letter case ignored
NameIsFeatured(name) ==
    \E k \in 1..Len(FeaturedList(featuredParam)) :
        Includes(ToLowerCase(name), ToLowerCase(FeaturedList(featuredParam)[k]))

\* C2: with a non-empty featured list, every repository of the response
\* that matches a featured fragment stands before every one that matches none.
C2_FeaturedFirst ==
    (Answered200 /\ caller = "repos" /\ Len(FeaturedList(featuredParam)) > 0) =>
        \A a, b \in 1..Len(ResponseRepos) :
            (NameIsFeatured(ResponseRepos[b].name) /\ ~NameIsFeatured(ResponseRepos[a].name))
                => b < a

\* C8: no private, archived or template repository is in a /repos response,
\* whatever the featured list and the limit.
C8_OnlyPublic ==
    (Answered200 /\ caller = "repos") =>
        \A k \in 1..Len(ResponseRepos) :
            /\ ~ResponseRepos[k].isPrivate
            /\ ~ResponseRepos[k].isArchived
            /\ ~ResponseRepos[k].isTemplate
            /\ \E j \in 1..Len(allRepos) :
                  /\ allRepos[j].id = ResponseRepos[k].id
                  /\ ~allRepos[j].isPrivate /\ ~allRepos[j].isArchived /\ ~allRepos[j].isTemplate

C8_Witness ==
    /\ Answered200
    /\ allRepos = <<RepoP, RepoA, RepoT>>
    /\ featuredParam = Some(<<"f", "o">>)
    /\ limitParam = Some(<<"4">>)
    /\ Len(ResponseRepos) = 1
    /\ ResponseRepos[1].id = RepoA.id

\* C9: the accumulated nodes never number more than 100.
C9_AtMostCap ==
    Len(allRepos) <= 100

\* the limits that are plain non-negative integers, with their values
PlainLimit ==
    CASE limitParam = Some(<<"0">>) -> 0
      [] limitParam = Some(<<"2">>) -> 2
      [] limitParam = Some(<<"4">>) -> 4
      [] OTHER -> -1

Eligible == SelectSeq(allRepos, LAMBDA r : ~r.isPrivate /\ ~r.isArchived /\ ~r.isTemplate)

StarsGiven(r) ==
    IF r.stargazers = None THEN 0
    ELSE IF Get(r.stargazers).totalCount = None THEN 0
    ELSE Get(Get(r.stargazers).totalCount)

Min(a, b) == IF a < b THEN a ELSE b

\* C10: without a featured parameter and with limit n >= 0, the response
\* holds min(n, number of eligible repositories) entries, in non-increasing
\* star order, and they are the highest-starred eligible repositories.
C10_TopNByStars ==
    (Answered200 /\ caller = "repos" /\ featuredParam = None /\ PlainLimit >= 0) =>
        /\ Len(ResponseRepos) = Min(PlainLimit, Len(Eligible))
        /\ \A k \in 1..(Len(ResponseRepos) - 1) :
              ResponseRepos[k].stargazerCount >= ResponseRepos[k + 1].stargazerCount
        /\ \A k \in 1..Len(ResponseRepos) :
              /\ \E j \in 1..Len(Eligible) :
                    /\ Eligible[j].id = ResponseRepos[k].id
                    /\ StarsGiven(Eligible[j]) = ResponseRepos[k].stargazerCount
              /\ Cardinality({j \in 1..Len(Eligible) :
                                 StarsGiven(Eligible[j]) > ResponseRepos[k].stargazerCount}) <= k - 1
        /\ \A r \in RepoUniverse :
              Cardinality({k \in 1..Len(ResponseRepos) : ResponseRepos[k].id = r.id})
                 <= Cardinality({j \in 1..Len(Eligible) : Eligible[j].id = r.id})

C10_Witness ==
    /\ Answered200
    /\ featuredParam = None
    /\ limitParam = Some(<<"2">>)
    /\ allRepos = <<RepoA, RepoB, RepoC>>
    /\ Len(ResponseRepos) = 2
    /\ ResponseRepos[1].id = RepoB.id /\ ResponseRepos[1].stargazerCount = 10
    /\ ResponseRepos[2].id = RepoC.id /\ ResponseRepos[2].stargazerCount = 2

\* the response entries built from upstream node r
EntriesOf(r) == {k \in 1..Len(ResponseRepos) : ResponseRepos[k].id = r.id}

\* C13: in a /repos response, an entry whose upstream node lacks stargazers,
\* forkCount or languages carries stargazerCount 0, forkCount 0 and the
\* languages object {totalSize: 0, edges: []}; the three fields are never null.
C13_MissingDefaults ==
    Answered200 /\ caller = "repos" =>
        \A j \in 1..Len(allRepos) : \A k \in EntriesOf(allRepos[j]) :
            LET r == allRepos[j]
                e == ResponseRepos[k]
            IN /\ e.stargazerCount \in Nat
               /\ e.forkCount \in Nat
               /\ e.languages # None
               /\ r.stargazers = None => e.stargazerCount = 0
               /\ r.forkCount = None => e.forkCount = 0
               /\ r.languages = None => e.languages = [totalSize |-> 0, edges |-> <<>>]

\* a node with none of the three fields was normalised
C13_Witness ==
    /\ Answered200
    /\ caller = "repos"
    /\ \E j \in 1..Len(allRepos) :
          /\ allRepos[j].stargazers = None
          /\ allRepos[j].forkCount = None
          /\ allRepos[j].languages = None
          /\ EntriesOf(allRepos[j]) # {}

\* C20: when the limit parameter is absent the limit is 10: the response has
\* min(10, number of eligible repositories) entries.
C20_DefaultLimit ==
    Answered200 /\ caller = "repos" /\ limitParam = None =>
        Len(ResponseRepos) = Min(10, Len(Eligible))

\* more than ten eligible repositories were fetched and ten were returned
C20_Witness ==
    /\ Answered200
    /\ caller = "repos"
    /\ limitParam = None
    /\ Len(Eligible) > 10
    /\ Len(ResponseRepos) = 10

\* upstream node of id a comes before upstream node of id b
UpstreamBefore(a, b) ==
    \E x \in 1..Len(allRepos) : \E y \in (x + 1)..Len(allRepos) :
        allRepos[x].id = a /\ allRepos[y].id = b

\* C21: after the star sort two repositories of equal star count keep the
\* order they had before it: a featured one precedes a non-featured one, and
\* two of the same partition are in upstream order.
C21_TiesKeepOrder ==
    Answered200 /\ caller = "repos" =>
        \A k \in 1..Len(ResponseRepos) : \A l \in (k + 1)..Len(ResponseRepos) :
            LET a == ResponseRepos[k]
                b == ResponseRepos[l]
            IN a.stargazerCount = b.stargazerCount /\ a.id # b.id =>
                  /\ ~(NameIsFeatured(b.name) /\ ~NameIsFeatured(a.name))
                  /\ NameIsFeatured(a.name) = NameIsFeatured(b.name) =>
                        UpstreamBefore(a.id, b.id)

\* bar and zap both have 10 stars and arrive as bar, zap; zap is featured and
\* is answered first
C21_Witness ==
    /\ Answered200
    /\ caller = "repos"
    /\ allRepos = <<RepoB, RepoE>>
    /\ NameIsFeatured(RepoE.name) /\ ~NameIsFeatured(RepoB.name)
    /\ Len(ResponseRepos) = 2
    /\ ResponseRepos[1].id = RepoE.id
    /\ ResponseRepos[2].id = RepoB.id

\* the commit count upstream gave for node r, if every link to it is there
CommitsGiven(r) ==
    IF r.defaultBranchRef = None THEN None
    ELSE LET ref == Get(r.defaultBranchRef)
         IN IF ref.target = None THEN None
            ELSE IF Get(ref.target).history = None THEN None
            ELSE Get(Get(ref.target).history).totalCount

\* C23: for every repository of a /repos response, defaultBranchRef is null
\* when any link of defaultBranchRef.target.history.totalCount is absent
\* upstream, and is {target: {history: {totalCount}}} with the upstream number
\* (0 included) when the count is there; the wrapper never holds a null or
\* defaulted count.
C23_BranchRefNullOrCount ==
    Answered200 /\ caller = "repos" =>
        \A j \in 1..Len(allRepos) : \A k \in EntriesOf(allRepos[j]) :
            LET n == CommitsGiven(allRepos[j])
                e == ResponseRepos[k]
            IN IF n = None
               THEN e.defaultBranchRef = None
               ELSE e.defaultBranchRef = Some([target |-> [history |-> [totalCount |-> Get(n)]]])

\* a count of 0 is kept in its wrapper, next to a node with a broken chain
C23_Witness ==
    /\ Answered200
    /\ caller = "repos"
    /\ \E k \in 1..Len(ResponseRepos) :
          /\ ResponseRepos[k].id = RepoB.id
          /\ ResponseRepos[k].defaultBranchRef =
                 Some([target |-> [history |-> [totalCount |-> 0]]])
    /\ \E k \in 1..Len(ResponseRepos) :
          /\ ResponseRepos[k].id = RepoC.id
          /\ ResponseRepos[k].defaultBranchRef = None

\* the endCursor of the page that just arrived, None when it reports none
ReportedCursor ==
    LET d == Get(Get(payload).data)
    IN IF d.user = None THEN None
       ELSE IF Get(d.user).repositories = None THEN None
       ELSE IF Get(Get(d.user).repositories).pageInfo = None THEN None
       ELSE Get(Get(Get(d.user).repositories).pageInfo).endCursor

\* the handler goes round its loop: one more page is asked for
NextPageAsked == caller = "repos" /\ Len(sentCursors) >= 1 /\ Len(sentCursors') = Len(sentCursors) + 1

\* C24: /repos fetches its pages one after the other: never more than one
\* request in flight, the first page asked with a null cursor, and page k+1
\* asked with the endCursor page k reported (null when it reported none).
C24_SequentialPages ==
    /\ [](inFlight <= 1)
    /\ [](caller = "repos" /\ Len(sentCursors) >= 1 => sentCursors[1] = None)
    /\ [][NextPageAsked =>
             /\ inFlight = 0
             /\ IsSome(payload)
             /\ sentCursors' = Append(sentCursors, ReportedCursor)]_vars

\* the second page is in flight, asked with the cursor the first reported
C24_Witness ==
    /\ caller = "repos"
    /\ Len(sentCursors) = 2
    /\ sentCursors[1] = None
    /\ sentCursors[2] = Some("Y3Vyc29yOjE=")
    /\ inFlight = 1

\* a page fetch of /repos failed: the handler answers the generic 500, with
\* no repository in it
PageFailureIs500 ==
    (caller = "repos" /\ pc = "returned" /\ ~callResult.ok) =>
        /\ pc' = "done"
        /\ response'.status = 500
        /\ response'.error = "Failed to fetch GitHub repositories"
        /\ response'.body = None

\* once answered, a request takes no further step
AnswerIsFinal == pc = "done" => pc' = "done" /\ response' = response

\* C26: when the transport fails on any page of /repos, first or later, the
\* response is the generic 500 and holds none of the repositories fetched so
\* far; a 200 is only built when every page fetch succeeded.
C26_NoPartialResponse ==
    /\ [][PageFailureIs500]_vars
    /\ [][AnswerIsFinal]_vars
    /\ [](caller = "repos" /\ pc = "done" /\ response.status # 200 =>
             response.body = None)
    /\ [](caller = "repos" /\ pc = "done" /\ response.status = 200 =>
             callResult = NoResult /\ calls >= 1)

\* the first page brought repositories, the second failed, the answer is 500
C26_Witness ==
    /\ caller = "repos"
    /\ pc = "done"
    /\ calls = 2
    /\ Len(allRepos) > 0
    /\ response.status = 500
    /\ response.body = None

\* the locals the pagination loop of /repos carries from one iteration to the next
LoopState == <<allRepos, hasNextPage, endCursor>>

\* C29 as stated: the pagination loop ends for every upstream behaviour in
\* which every page fetch succeeds. The loop has no page counter, so it ends
\* only if no iteration that goes round again leaves its locals as they were:
\* from unchanged locals the same upstream answer repeats the iteration for ever.
C29_LoopAdvances ==
    [][caller = "repos" /\ pc = "returned" /\ pc' = "fetch" => LoopState' # LoopState]_vars

\* the page held in payload has no user, or a user without repositories
PageWithoutUser ==
    /\ IsSome(payload)
    /\ Get(payload).valid
    /\ Get(payload).data # None
    /\ LET d == Get(Get(payload).data)
       IN d.user = None \/ Get(d.user).repositories = None

\* such a page ends the loop: no further page is asked for
NoPageAfterMissingUser ==
    (caller = "repos" /\ pc = "returned" /\ callResult.ok /\ PageWithoutUser) =>
        /\ pc' = "process"
        /\ allRepos' = allRepos
        /\ calls' = calls
        /\ requests' = requests

\* C30: when the upstream call of /repos succeeds but the user record, or its
\* repositories field, is absent, exactly one page request is issued and the
\* response is 200 with an empty list; /repos never answers 404.
C30_MissingUserIsEmpty200 ==
    /\ [][NoPageAfterMissingUser]_vars
    /\ [](caller = "repos" /\ pc = "done" => response.status # 404)
    /\ [](caller = "repos" /\ pc = "done" /\ calls = 1 /\ PageWithoutUser =>
             /\ response.status = 200
             /\ response.body = Some(<<>>))

\* the only page had no user: one page request, and an empty 200
C30_Witness ==
    /\ caller = "repos"
    /\ pc = "done"
    /\ calls = 1
    /\ PageWithoutUser
    /\ Get(Get(payload).data).user = None
    /\ response.status = 200
    /\ ResponseRepos = <<>>

-----------------------------------------------------------------------------
(* Properties of the single-call routes *)

\* a single-call route answered after its upstream call returned data
EntityAnswered == pc = "done" /\ caller \in EntityRoutes /\ IsSome(payload)

\* the data the upstream call returned
UpstreamData == Get(Get(payload).data)

UserMissing == UpstreamData.user = None

CollectionMissing ==
    UserMissing \/ Get(UpstreamData.user).contributionsCollection = None

EntityMissing == IF caller = "contributions" THEN CollectionMissing ELSE UserMissing

\* C11: when the upstream call completes but the requested entity is absent
\* (no user for /stats and /activity, no contributions collection for
\* /contributions) the response is a 404 with an error field and no entity,
\* never a 200 with defaulted fields.
C11_AbsentIs404 ==
    EntityAnswered /\ EntityMissing =>
        /\ response.status = 404
        /\ response.error # ""
        /\ response.body = None

C11_Witness ==
    /\ EntityAnswered
    /\ caller = "contributions"
    /\ ~UserMissing
    /\ CollectionMissing
    /\ response.status = 404

\* a route answered with an error
Failed == pc = "done" /\ caller \in Routes /\ response.status # 200

\* C12 as stated: two failing requests to one endpoint that end in the same
\* status get the same body. The catch block's body is a reachable 500 body of
\* every endpoint, so every 500 body of the endpoint would have to equal it.
C12_SameStatusSameBody ==
    Failed /\ response.status = 500 => response.error = FailMessage(caller)

\* the messages the routes are written with, by status and credential
FixedMessage(c, status, configured) ==
    CASE status = 404 -> IF c = "contributions" THEN "Contributions data not found"
                         ELSE "User not found"
      [] status = 500 /\ ~configured -> "GitHub token not configured"
      [] status = 500 /\ configured /\ c = "stats" -> "Failed to fetch GitHub stats"
      [] status = 500 /\ configured /\ c = "activity" -> "Failed to fetch GitHub activity"
      [] status = 500 /\ configured /\ c = "contributions" ->
             "Failed to fetch GitHub contributions"
      [] status = 500 /\ configured /\ c = "repos" -> "Failed to fetch GitHub repositories"
      [] OTHER -> "no such response"

\* C12 (amended): the body of an error response is fixed by the endpoint, the
\* status and whether the credential is configured; it carries nothing else,
\* so no upstream payload, status text or error message reaches the client.
C12_FixedBody ==
    Failed =>
        /\ response.error = FixedMessage(caller, response.status, ~Falsy(token))
        /\ response.body = None

\* an upstream failure with its own message was turned into the fixed body
C12_Witness ==
    /\ Failed
    /\ response.status = 500
    /\ ~Falsy(token)
    /\ requests = MaxRetries
    /\ response.error = "Failed to fetch GitHub stats"

\* a single-call route answered 200
EntityOk == EntityAnswered /\ response.status = 200

\* the user object upstream returned
UpstreamUser == Get(UpstreamData.user)

\* the sum of the star counts upstream gave, a missing one counting 0
RECURSIVE SumGiven(_)
SumGiven(nodes) ==
    IF nodes = <<>> THEN 0 ELSE StarsGiven(Head(nodes)) + SumGiven(Tail(nodes))

\* C14: totalStars of /stats is the sum of stargazers.totalCount over the
\* fetched repository nodes, a node without that value contributing 0.
C14_TotalStars ==
    EntityOk /\ caller = "stats" =>
        Get(response.body).totalStars = SumGiven(Get(Get(UpstreamUser.repositories).nodes))

\* three nodes with 3, 0 and 7 stars give 10
C14_Witness ==
    /\ EntityOk
    /\ caller = "stats"
    /\ Get(Get(UpstreamUser.repositories).nodes) =
           <<StarNode(StarCount(3)), StarNode(StarCount(0)), StarNode(StarCount(7))>>
    /\ Get(response.body).totalStars = 10

\* a count upstream gave, an absent one counting 0
Given(o) == IF o = None THEN 0 ELSE Get(o)

\* the issue count of a /stats or /activity body
IssuesField == IF caller = "stats" THEN Get(response.body).totalIssues
               ELSE Get(response.body).issues

\* C15: the issue count of /activity and of /stats is the open issue count
\* plus the closed issue count, an absent count being 0.
C15_IssuesAreOpenPlusClosed ==
    EntityOk /\ caller \in {"stats", "activity"} =>
        IssuesField = Given(UpstreamUser.openIssues) + Given(UpstreamUser.closedIssues)

\* 4 open and 9 closed issues give 13
C15_Witness ==
    /\ EntityOk
    /\ caller = "activity"
    /\ UpstreamUser.openIssues = Some(4)
    /\ UpstreamUser.closedIssues = Some(9)
    /\ IssuesField = 13

\* C16 as stated: every counter of a 200 /stats response is a non-negative
\* integer, never null or undefined, for every upstream shape, a missing
\* repository total count included.
C16_CountersAreNumbers ==
    EntityOk /\ caller = "stats" =>
        LET b == Get(response.body)
        IN /\ IsSome(b.totalRepos)
           /\ b.totalStars \in Nat
           /\ b.totalCommits \in Nat
           /\ b.totalPRs \in Nat
           /\ b.totalPRsMerged \in Nat
           /\ b.totalReviews \in Nat
           /\ b.totalIssues \in Nat
           /\ b.contributedTo \in Nat
           /\ b.followers \in Nat
           /\ b.following \in Nat

\* the calendar upstream returned, if any
UpstreamCalendar ==
    Get(Get(UpstreamData.user).contributionsCollection).contributionCalendar

\* C17: weeks of /contributions, and the contributionDays of each week, are
\* the upstream sequences in the upstream order; when the calendar is absent
\* totalContributions is 0 and weeks is empty.
C17_WeeksAsUpstream ==
    EntityOk /\ caller = "contributions" =>
        LET b == Get(response.body)
        IN /\ UpstreamCalendar = None => b.totalContributions = 0 /\ b.weeks = <<>>
           /\ UpstreamCalendar # None /\ Get(UpstreamCalendar).weeks # None =>
                 LET up == Get(Get(UpstreamCalendar).weeks)
                 IN /\ Len(b.weeks) = Len(up)
                    /\ \A k \in 1..Len(up) :
                          b.weeks[k].contributionDays = up[k].contributionDays

\* weeks that are neither in date order nor distinct came through unchanged
C17_Witness ==
    /\ EntityOk
    /\ caller = "contributions"
    /\ UpstreamCalendar # None
    /\ Get(UpstreamCalendar).weeks = Some(<<WeekTwo, WeekOne, WeekTwo>>)
    /\ Get(response.body).weeks = <<WeekTwo, WeekOne, WeekTwo>>

\* C22 as stated: once the transport returned data with the requested entity
\* present, building the output never throws, whatever upstream fields are
\* missing: the route answers 200, not its 500 error path.
C22_NormalizationTotal ==
    EntityAnswered /\ ~EntityMissing => response.status = 200

\* C25 as stated: one request to a single-call route invokes the transport
\* exactly once.
C25_ExactlyOnce ==
    pc = "done" /\ caller \in EntityRoutes => calls = 1

\* a failed invocation is followed by the 500 response and nothing else
FailureEndsRequest ==
    (caller \in EntityRoutes /\ pc = "returned" /\ ~callResult.ok) =>
        /\ pc' = "done"
        /\ response'.status = 500
        /\ calls' = calls
        /\ requests' = requests

\* C25 (amended): a single-call route never retries above the transport. One
\* request invokes the transport once when the token is configured and not at
\* all when it is not, so it causes at most 3 upstream HTTP requests; a
\* transport failure ends the request with the 500 response, without a second
\* invocation and without a further HTTP request.
C25_NoEndpointRetry ==
    /\ [](caller \in EntityRoutes => calls <= 1 /\ requests <= 3)
    /\ [](caller \in EntityRoutes /\ pc = "done" =>
             calls = IF token = None \/ token = Some("") THEN 0 ELSE 1)
    /\ [][FailureEndsRequest]_vars

\* the one invocation used up its three attempts and the route answered 500
C25_Witness ==
    /\ caller = "stats"
    /\ pc = "done"
    /\ calls = 1
    /\ requests = 3
    /\ response.status = 500

-----------------------------------------------------------------------------
(* Properties of all four routes *)

\* C18: every 200 response of the four endpoints carries the header
\* Cache-Control: public, s-maxage=3600, stale-while-revalidate=86400.
C18_CacheHeader ==
    Answered200 /\ caller \in Routes =>
        response.cache = "public, s-maxage=3600, stale-while-revalidate=86400"

\* a 200 of a single-call route, built from upstream data, carries the header
C18_Witness ==
    /\ Answered200
    /\ caller = "stats"
    /\ IsSome(payload)
    /\ response.cache = "public, s-maxage=3600, stale-while-revalidate=86400"

-----------------------------------------------------------------------------
(* Properties of GithubSection *)

\* the request of result r succeeded: its fetch fulfilled ok and nothing
\* went wrong reading its body
Succeeded(r) == settled[r] = "ok" /\ bodyRead[r] # "failed"

\* the state of result r holds its data
Populated(r) ==
    CASE r = "stats" -> stats # None
      [] r = "repos" -> repositoriesState # <<>>
      [] OTHER -> activity # None

\* C27 as stated: whatever the outcomes of the three requests, each request
\* that succeeded has populated its own state when the load is over.
C27_FailInIsolation ==
    cpc = "done" => \A r \in FetchNames : Succeeded(r) => Populated(r)

====
